---- MODULE Spec2Model ----
(***************************************************************************)
(* Model of helpers/gen_bc6h_parser.py: the generator that walks the       *)
(* MODEREF bit-layout table and prints, for every mode, the sequence of    *)
(* TCTEX_H_GETBITS extraction statements of a C switch.                    *)
(*                                                                         *)
(* Text is modelled as a sequence of one-character strings, so that the    *)
(* regular expression, the splits and int() are computed on the text.      *)
(* A printed line is modelled as a record: kind "op" for a FORMAT line     *)
(* (with the five values FORMAT interpolates), and one kind for each of    *)
(* the fixed lines (switch, open, case, begin, end, break, close).         *)
(***************************************************************************)
EXTENDS Integers, Sequences, FiniteSets, TLC

VARIABLES table,    \* MODEREF.splitlines(): the lines of the layout table
          pc,       \* position of the script: start, line, assign, rev, done, error
          li,       \* index in table of the line the outer loop is at
          mode,     \* the mode identifier of the current line
          assigns,  \* the comma-separated elements of the current line
          ai,       \* index in assigns of the element the inner loop is at
          offset,   \* the bit cursor
          data,     \* the dictionary handed to FORMAT
          head,     \* low end of the current range (after the swap)
          tail,     \* high end of the current range
          numbits,  \* width of the current range
          i,        \* index of the reverse-read loop
          out       \* everything printed so far, in order

vars == <<table, pc, li, mode, assigns, ai, offset, data, head, tail, numbits, i, out>>

----------------------------------------------------------------------------
(* Bounds of the synthetic inputs.                                         *)

\* Bracket numbers of the synthetic field range over 0..MaxBit.
MaxBit == 5

----------------------------------------------------------------------------
(* The layout table of the script.                                         *)

MODEREF ==
  << <<>>,
     <<"0"," "," ","m","[","1",":","0","]",",","g","2","[","4","]",",","b","2","[","4","]",",","b","3","[","4","]",",","r","0","[","9",":","0","]",",","g","0","[","9",":","0","]",",","b","0","[","9",":","0","]",",","r","1","[","4",":","0","]",",","g","3","[","4","]",",","g","2","[","3",":","0","]",",","g","1","[","4",":","0","]",",","b","3","[","0","]",",","g","3","[","3",":","0","]",",","b","1","[","4",":","0","]",",","b","3","[","1","]",",","b","2","[","3",":","0","]",",","r","2","[","4",":","0","]",",","b","3","[","2","]",",","r","3","[","4",":","0","]",",","b","3","[","3","]">>,
     <<"1"," "," ","m","[","1",":","0","]",",","g","2","[","5","]",",","g","3","[","4","]",",","g","3","[","5","]",",","r","0","[","6",":","0","]",",","b","3","[","0","]",",","b","3","[","1","]",",","b","2","[","4","]",",","g","0","[","6",":","0","]",",","b","2","[","5","]",",","b","3","[","2","]",",","g","2","[","4","]",",","b","0","[","6",":","0","]",",","b","3","[","3","]",",","b","3","[","5","]",",","b","3","[","4","]",",","r","1","[","5",":","0","]",",","g","2","[","3",":","0","]",",","g","1","[","5",":","0","]",",","g","3","[","3",":","0","]",",","b","1","[","5",":","0","]",",","b","2","[","3",":","0","]",",","r","2","[","5",":","0","]",",","r","3","[","5",":","0","]">>,
     <<"2"," "," ","m","[","4",":","0","]",",","r","0","[","9",":","0","]",",","g","0","[","9",":","0","]",",","b","0","[","9",":","0","]",",","r","1","[","4",":","0","]",",","r","0","[","1","0","]",",","g","2","[","3",":","0","]",",","g","1","[","3",":","0","]",",","g","0","[","1","0","]",",","b","3","[","0","]",",","g","3","[","3",":","0","]",",","b","1","[","3",":","0","]",",","b","0","[","1","0","]",",","b","3","[","1","]",",","b","2","[","3",":","0","]",",","r","2","[","4",":","0","]",",","b","3","[","2","]",",","r","3","[","4",":","0","]",",","b","3","[","3","]">>,
     <<"6"," "," ","m","[","4",":","0","]",",","r","0","[","9",":","0","]",",","g","0","[","9",":","0","]",",","b","0","[","9",":","0","]",",","r","1","[","3",":","0","]",",","r","0","[","1","0","]",",","g","3","[","4","]",",","g","2","[","3",":","0","]",",","g","1","[","4",":","0","]",",","g","0","[","1","0","]",",","g","3","[","3",":","0","]",",","b","1","[","3",":","0","]",",","b","0","[","1","0","]",",","b","3","[","1","]",",","b","2","[","3",":","0","]",",","r","2","[","3",":","0","]",",","b","3","[","0","]",",","b","3","[","2","]",",","r","3","[","3",":","0","]",",","g","2","[","4","]",",","b","3","[","3","]">>,
     <<"1","0"," ","m","[","4",":","0","]",",","r","0","[","9",":","0","]",",","g","0","[","9",":","0","]",",","b","0","[","9",":","0","]",",","r","1","[","3",":","0","]",",","r","0","[","1","0","]",",","b","2","[","4","]",",","g","2","[","3",":","0","]",",","g","1","[","3",":","0","]",",","g","0","[","1","0","]",",","b","3","[","0","]",",","g","3","[","3",":","0","]",",","b","1","[","4",":","0","]",",","b","0","[","1","0","]",",","b","2","[","3",":","0","]",",","r","2","[","3",":","0","]",",","b","3","[","1","]",",","b","3","[","2","]",",","r","3","[","3",":","0","]",",","b","3","[","4","]",",","b","3","[","3","]">>,
     <<"1","4"," ","m","[","4",":","0","]",",","r","0","[","8",":","0","]",",","b","2","[","4","]",",","g","0","[","8",":","0","]",",","g","2","[","4","]",",","b","0","[","8",":","0","]",",","b","3","[","4","]",",","r","1","[","4",":","0","]",",","g","3","[","4","]",",","g","2","[","3",":","0","]",",","g","1","[","4",":","0","]",",","b","3","[","0","]",",","g","3","[","3",":","0","]",",","b","1","[","4",":","0","]",",","b","3","[","1","]",",","b","2","[","3",":","0","]",",","r","2","[","4",":","0","]",",","b","3","[","2","]",",","r","3","[","4",":","0","]",",","b","3","[","3","]">>,
     <<"1","8"," ","m","[","4",":","0","]",",","r","0","[","7",":","0","]",",","g","3","[","4","]",",","b","2","[","4","]",",","g","0","[","7",":","0","]",",","b","3","[","2","]",",","g","2","[","4","]",",","b","0","[","7",":","0","]",",","b","3","[","3","]",",","b","3","[","4","]",",","r","1","[","5",":","0","]",",","g","2","[","3",":","0","]",",","g","1","[","4",":","0","]",",","b","3","[","0","]",",","g","3","[","3",":","0","]",",","b","1","[","4",":","0","]",",","b","3","[","1","]",",","b","2","[","3",":","0","]",",","r","2","[","5",":","0","]",",","r","3","[","5",":","0","]">>,
     <<"2","2"," ","m","[","4",":","0","]",",","r","0","[","7",":","0","]",",","b","3","[","0","]",",","b","2","[","4","]",",","g","0","[","7",":","0","]",",","g","2","[","5","]",",","g","2","[","4","]",",","b","0","[","7",":","0","]",",","g","3","[","5","]",",","b","3","[","4","]",",","r","1","[","4",":","0","]",",","g","3","[","4","]",",","g","2","[","3",":","0","]",",","g","1","[","5",":","0","]",",","g","3","[","3",":","0","]",",","b","1","[","4",":","0","]",",","b","3","[","1","]",",","b","2","[","3",":","0","]",",","r","2","[","4",":","0","]",",","b","3","[","2","]",",","r","3","[","4",":","0","]",",","b","3","[","3","]">>,
     <<"2","6"," ","m","[","4",":","0","]",",","r","0","[","7",":","0","]",",","b","3","[","1","]",",","b","2","[","4","]",",","g","0","[","7",":","0","]",",","b","2","[","5","]",",","g","2","[","4","]",",","b","0","[","7",":","0","]",",","b","3","[","5","]",",","b","3","[","4","]",",","r","1","[","4",":","0","]",",","g","3","[","4","]",",","g","2","[","3",":","0","]",",","g","1","[","4",":","0","]",",","b","3","[","0","]",",","g","3","[","3",":","0","]",",","b","1","[","5",":","0","]",",","b","2","[","3",":","0","]",",","r","2","[","4",":","0","]",",","b","3","[","2","]",",","r","3","[","4",":","0","]",",","b","3","[","3","]">>,
     <<"3","0"," ","m","[","4",":","0","]",",","r","0","[","5",":","0","]",",","g","3","[","4","]",",","b","3","[","0","]",",","b","3","[","1","]",",","b","2","[","4","]",",","g","0","[","5",":","0","]",",","g","2","[","5","]",",","b","2","[","5","]",",","b","3","[","2","]",",","g","2","[","4","]",",","b","0","[","5",":","0","]",",","g","3","[","5","]",",","b","3","[","3","]",",","b","3","[","5","]",",","b","3","[","4","]",",","r","1","[","5",":","0","]",",","g","2","[","3",":","0","]",",","g","1","[","5",":","0","]",",","g","3","[","3",":","0","]",",","b","1","[","5",":","0","]",",","b","2","[","3",":","0","]",",","r","2","[","5",":","0","]",",","r","3","[","5",":","0","]">>,
     <<"3"," "," ","m","[","4",":","0","]",",","r","0","[","9",":","0","]",",","g","0","[","9",":","0","]",",","b","0","[","9",":","0","]",",","r","1","[","9",":","0","]",",","g","1","[","9",":","0","]",",","b","1","[","9",":","0","]">>,
     <<"7"," "," ","m","[","4",":","0","]",",","r","0","[","9",":","0","]",",","g","0","[","9",":","0","]",",","b","0","[","9",":","0","]",",","r","1","[","8",":","0","]",",","r","0","[","1","0","]",",","g","1","[","8",":","0","]",",","g","0","[","1","0","]",",","b","1","[","8",":","0","]",",","b","0","[","1","0","]">>,
     <<"1","1"," ","m","[","4",":","0","]",",","r","0","[","9",":","0","]",",","g","0","[","9",":","0","]",",","b","0","[","9",":","0","]",",","r","1","[","7",":","0","]",",","r","0","[","1","0",":","1","1","]",",","g","1","[","7",":","0","]",",","g","0","[","1","0",":","1","1","]",",","b","1","[","7",":","0","]",",","b","0","[","1","0",":","1","1","]">>,
     <<"1","5"," ","m","[","4",":","0","]",",","r","0","[","9",":","0","]",",","g","0","[","9",":","0","]",",","b","0","[","9",":","0","]",",","r","1","[","3",":","0","]",",","r","0","[","1","0",":","1","5","]",",","g","1","[","3",":","0","]",",","g","0","[","1","0",":","1","5","]",",","b","1","[","3",":","0","]",",","b","0","[","1","0",":","1","5","]">> >>

----------------------------------------------------------------------------
(* Characters, int(), strip(), split() and the regular expression.         *)

Min(S) == CHOOSE x \in S : \A y \in S : x <= y

Max(S) == CHOOSE x \in S : \A y \in S : x >= y

Digit == {"0", "1", "2", "3", "4", "5", "6", "7", "8", "9"}

Letter == {"a", "b", "c", "d", "e", "f", "g", "h", "i", "j", "k", "l", "m",
           "n", "o", "p", "q", "r", "s", "t", "u", "v", "w", "x", "y", "z",
           "A", "B", "C", "D", "E", "F", "G", "H", "I", "J", "K", "L", "M",
           "N", "O", "P", "Q", "R", "S", "T", "U", "V", "W", "X", "Y", "Z"}

\* \w of the regular expression.
IsWordChar(c) == c \in Letter \cup Digit \cup {"_"}

DigitVal(c) ==
  CASE c = "0" -> 0 [] c = "1" -> 1 [] c = "2" -> 2 [] c = "3" -> 3
    [] c = "4" -> 4 [] c = "5" -> 5 [] c = "6" -> 6 [] c = "7" -> 7
    [] c = "8" -> 8 [] c = "9" -> 9

\* int(s) succeeds on a non-empty run of digits (the texts modelled hold no
\* sign, underscore or inner blank); on anything else it raises ValueError.
IsInt(s) == Len(s) >= 1 /\ \A k \in 1..Len(s) : s[k] \in Digit

RECURSIVE ParseInt(_)
ParseInt(s) ==
  IF Len(s) = 0 THEN 0
  ELSE 10 * ParseInt(SubSeq(s, 1, Len(s) - 1)) + DigitVal(s[Len(s)])

\* str.strip()
Strip(s) ==
  LET keep == {k \in 1..Len(s) : s[k] # " "}
  IN  IF keep = {} THEN <<>> ELSE SubSeq(s, Min(keep), Max(keep))

\* str.split(): the maximal runs of non-blank characters
RECURSIVE SplitWs(_)
SplitWs(s) ==
  LET keep == {k \in 1..Len(s) : s[k] # " "}
  IN  IF keep = {} THEN <<>>
      ELSE LET a  == Min(keep)
               sp == {k \in a..Len(s) : s[k] = " "}
               b  == IF sp = {} THEN Len(s) ELSE Min(sp) - 1
           IN  <<SubSeq(s, a, b)>> \o SplitWs(SubSeq(s, b + 1, Len(s)))

\* str.split(','): the pieces between commas, empty pieces included
RECURSIVE SplitComma(_)
SplitComma(s) ==
  LET cs == {k \in 1..Len(s) : s[k] = ","}
  IN  IF cs = {} THEN <<s>>
      ELSE <<SubSeq(s, 1, Min(cs) - 1)>> \o SplitComma(SubSeq(s, Min(cs) + 1, Len(s)))

\* Last index of the maximal run of digits of s that starts at p (p - 1 when
\* s[p] is no digit): what a greedy \d+ consumes.
DigitRunEnd(s, p) ==
  Min({k \in p..(Len(s) + 1) : k = Len(s) + 1 \/ s[k] \notin Digit}) - 1

NoMatch == [ok |-> FALSE]

\* re.match(r'(\w)(\d?)\[(\d+)(?::(\d+))?\]', s): anchored at the start of s
\* and not at its end.  No character that may follow a greedy group is a
\* digit, so backtracking never finds a match the greedy reading misses.
\* g4 is <<>> when the optional group did not take part (None); last is
\* m.end(), the index of the closing bracket.
Match(s) ==
  IF ~(Len(s) >= 1 /\ IsWordChar(s[1])) THEN NoMatch
  ELSE
    LET hasD == Len(s) >= 2 /\ s[2] \in Digit
        g2   == IF hasD THEN <<s[2]>> ELSE <<>>
        lb   == IF hasD THEN 3 ELSE 2
    IN  IF ~(Len(s) >= lb /\ s[lb] = "[") THEN NoMatch
        ELSE
          LET e3 == DigitRunEnd(s, lb + 1)
          IN  IF e3 < lb + 1 THEN NoMatch
              ELSE
                LET q    == e3 + 1
                    e4   == DigitRunEnd(s, q + 1)
                    has4 == Len(s) >= q /\ s[q] = ":" /\ e4 >= q + 1
                    rb   == IF has4 THEN e4 + 1 ELSE q
                IN  IF ~(Len(s) >= rb /\ s[rb] = "]") THEN NoMatch
                    ELSE [ok |-> TRUE,
                          last |-> rb,
                          g1 |-> s[1],
                          g2 |-> g2,
                          g3 |-> SubSeq(s, lb + 1, e3),
                          g4 |-> IF has4 THEN SubSeq(s, q + 1, e4) ELSE <<>>]

----------------------------------------------------------------------------
(* The steps of the per-element loop body.                                 *)

\* Variant: the cursor is not reset when a line starts.
StartOffset_carry(prev) == prev

\* offset = 0 at the start of every line (prev is the cursor the previous
\* line left).
StartOffset(prev) == 0

\* head = int(m.group(3))
HeadOf(m) == ParseInt(m.g3)

\* Variant: the second bracket number is ignored.
TailOf_single(m) == ParseInt(m.g3)

\* tail = int(m.group(4)) if m.group(4) else head
TailOf(m) == IF m.g4 # <<>> THEN ParseInt(m.g4) ELSE HeadOf(m)

\* if head >= tail: reverse = False ... else: reverse = True
IsReverse(h, t) == ~(h >= t)

\* Variant: the swap is forgotten for the low end.
LowOf_noswap(h, t) == h

\* head after "head, tail = tail, head" (only taken when head >= tail)
LowOf(h, t) == IF h >= t THEN t ELSE h

\* tail after the swap
HighOf(h, t) == IF h >= t THEN h ELSE t

\* Variant: off by one in the width.
NumBits_short(lo, hi) == hi - lo

\* numbits = tail - head + 1
NumBits(lo, hi) == hi - lo + 1

\* if m.group(1) == 'm'
IsSelector(ch) == ch = "m"

\* data after lines 41-43
DataStart(ch, off) == [channel |-> ch, offset |-> off]

\* Variant: the shift is the high end of the range.
DataFull_hi(ch, off, ep, nb, lo) ==
  [channel |-> ch, offset |-> off, endpoint |-> ep, numbits |-> nb, firstbit |-> lo + nb - 1]

\* data after lines 55-57
DataFull(ch, off, ep, nb, lo) ==
  [channel |-> ch, offset |-> off, endpoint |-> ep, numbits |-> nb, firstbit |-> lo]

\* Variant: the destination bit does not walk down.
DataReverse_fixedbit(d, off, k, hi) ==
  [d EXCEPT !.numbits = 1, !.offset = off + k, !.firstbit = hi]

\* Variant: the source offset does not walk up.
DataReverse_fixedoff(d, off, k, hi) ==
  [d EXCEPT !.numbits = 1, !.offset = off, !.firstbit = hi - k]

\* data inside the reverse read: numbits = 1, offset = offset + i,
\* firstbit = tail - i
DataReverse(d, off, k, hi) ==
  [d EXCEPT !.numbits = 1, !.offset = off + k, !.firstbit = hi - k]

\* FORMAT.format(**data): the five interpolated values of the printed line
Format(d) ==
  [kind |-> "op", endpoint |-> d.endpoint, channel |-> d.channel,
   offset |-> d.offset, numbits |-> d.numbits, firstbit |-> d.firstbit]

----------------------------------------------------------------------------
(* Inputs.                                                                 *)

Chars9 == <<"0", "1", "2", "3", "4", "5", "6", "7", "8", "9">>

\* Decimal text of n, 0 <= n <= 99
ToDigits(n) ==
  IF n < 10 THEN <<Chars9[n + 1]>> ELSE <<Chars9[(n \div 10) + 1], Chars9[(n % 10) + 1]>>

\* One field element: first character, optional endpoint digit, bracket with
\* one or two numbers, optional closing bracket, optional trailing text.
SynFields ==
  { <<l>> \o d \o <<"[">> \o ToDigits(a) \o c \o r \o s :
      l \in {"m", "g", "x", "z", "["},
      d \in {<<>>, <<"0">>},
      a \in 0..MaxBit,
      c \in {<<>>} \cup {<<":">> \o ToDigits(b) : b \in 0..MaxBit},
      r \in {<<"]">>},
      s \in {<<>>, <<"x">>} }

\* The line "9 m[4:0],g1[2],<f>,b0[1:0]"
SynLine(f) ==
  <<"9", " ", "m", "[", "4", ":", "0", "]", ",", "g", "1", "[", "2", "]", ",">>
    \o f \o <<",", "b", "0", "[", "1", ":", "0", "]">>

SynTables == { <<SynLine(f)>> : f \in SynFields }

\* Indices in MODEREF of the lines of modes 3, 7 and 11
PairLines == {12, 13, 14}

\* Tables that hold one line twice, with another line in between; the
\* repeated line declares its mode twice.
PairTables == { <<MODEREF[a], MODEREF[b], MODEREF[a]>> : a \in PairLines, b \in PairLines }

\* Lines that do not split into a mode and a field list, a blank line with
\* spaces, a field without closing bracket, an empty field.
OddTables ==
  { << <<"3">> >>,
    << <<"x", " ", "m", "[", "4", ":", "0", "]">> >>,
    << <<" ", " ">>, <<" ", "3", " ", "m", "[", "0", ":", "4", "]", ",", "r", "1", "[", "0", ":", "1", "]", " ">> >>,
    << <<"3", " ", "m", "[", "4", ":", "0", "]", ",", "r", "0", "[", "1", ":", "0">> >>,
    << <<"3", " ", "m", "[", "4", ":", "0", "]", ",", ",", "r", "0", "[", "1", ":", "0", "]">> >>,
    << <<"3", " ", "m", "[", "4", ":", "0", "]", " ", "r", "0", "[", "1", "]">> >> }

Tables == {MODEREF} \cup SynTables \cup PairTables \cup OddTables

----------------------------------------------------------------------------
(* The script.                                                             *)

Init ==
  /\ table \in Tables
  /\ pc = "start"
  /\ li = 1
  /\ mode = 0
  /\ assigns = <<>>
  /\ ai = 1
  /\ offset = 0
  /\ data = [channel |-> "", offset |-> 0]
  /\ head = 0
  /\ tail = 0
  /\ numbits = 0
  /\ i = 0
  /\ out = <<>>

\* print('switch(mode)'); print('{')
PrintSwitch ==
  /\ pc = "start"
  /\ out' = out \o <<[kind |-> "switch"], [kind |-> "open"]>>
  /\ pc' = "line"
  /\ UNCHANGED <<table, li, mode, assigns, ai, offset, data, head, tail, numbits, i>>

\* A line that is empty after strip(): continue
SkipBlank ==
  /\ pc = "line"
  /\ li <= Len(table)
  /\ Strip(table[li]) = <<>>
  /\ li' = li + 1
  /\ UNCHANGED <<table, pc, mode, assigns, ai, offset, data, head, tail, numbits, i, out>>

\* Lines 31-36: split the line, print the case label, reset the cursor.
\* The unpacking of line.split() raises unless there are exactly two pieces;
\* int(mode) raises when the first piece is not a number.
StartLine ==
  /\ pc = "line"
  /\ li <= Len(table)
  /\ Strip(table[li]) # <<>>
  /\ LET pieces == SplitWs(Strip(table[li]))
     IN  IF Len(pieces) # 2
         THEN /\ pc' = "error"
              /\ UNCHANGED <<mode, assigns, ai, offset, out>>
         ELSE IF ~IsInt(pieces[1])
         THEN /\ pc' = "error"
              /\ mode' = pieces[1]
              /\ assigns' = pieces[2]
              /\ UNCHANGED <<ai, offset, out>>
         ELSE /\ mode' = ParseInt(pieces[1])
              /\ assigns' = SplitComma(pieces[2])
              /\ out' = Append(out, [kind |-> "case", mode |-> ParseInt(pieces[1])])
              /\ offset' = StartOffset(offset)
              /\ ai' = 1
              /\ pc' = "assign"
  /\ UNCHANGED <<table, li, data, head, tail, numbits, i>>

\* Lines 38-68 for one element of assigns, up to the start of the reverse
\* read: the assert, the mode-selector branch, int(m.group(2)), and the print
\* of a forward field.
Assign ==
  /\ pc = "assign"
  /\ ai <= Len(assigns)
  /\ LET m == Match(assigns[ai])
     IN  IF ~m.ok
         THEN \* assert m
              /\ pc' = "error"
              /\ UNCHANGED <<ai, offset, data, head, tail, numbits, i, out>>
         ELSE
           LET h  == HeadOf(m)
               t  == TailOf(m)
               lo == LowOf(h, t)
               hi == HighOf(h, t)
               nb == NumBits(lo, hi)
           IN  /\ head' = lo
               /\ tail' = hi
               /\ numbits' = nb
               /\ IF IsSelector(m.g1)
                  THEN \* offset += numbits; continue
                       /\ data' = DataStart(m.g1, offset)
                       /\ offset' = offset + nb
                       /\ ai' = ai + 1
                       /\ UNCHANGED <<pc, i, out>>
                  ELSE IF ~IsInt(m.g2)
                  THEN \* int('') raises ValueError
                       /\ data' = DataStart(m.g1, offset)
                       /\ pc' = "error"
                       /\ UNCHANGED <<ai, offset, i, out>>
                  ELSE IF IsReverse(h, t)
                  THEN /\ data' = [DataFull(m.g1, offset, ParseInt(m.g2), nb, lo)
                                     EXCEPT !.numbits = 1]
                       /\ out' = Append(out, [kind |-> "begin"])
                       /\ i' = 0
                       /\ pc' = "rev"
                       /\ UNCHANGED <<ai, offset>>
                  ELSE /\ data' = DataFull(m.g1, offset, ParseInt(m.g2), nb, lo)
                       /\ out' = Append(out, Format(DataFull(m.g1, offset, ParseInt(m.g2), nb, lo)))
                       /\ offset' = offset + nb
                       /\ ai' = ai + 1
                       /\ UNCHANGED <<pc, i>>
  /\ UNCHANGED <<table, li, mode, assigns>>

\* Lines 61-64: one turn of the reverse-read loop
RevBit ==
  /\ pc = "rev"
  /\ i < tail - head + 1
  /\ data' = DataReverse(data, offset, i, tail)
  /\ out' = Append(out, Format(DataReverse(data, offset, i, tail)))
  /\ i' = i + 1
  /\ UNCHANGED <<table, pc, li, mode, assigns, ai, offset, head, tail, numbits>>

\* Lines 65 and 68: the end of the reverse read, and offset += numbits
RevEnd ==
  /\ pc = "rev"
  /\ ~(i < tail - head + 1)
  /\ out' = Append(out, [kind |-> "end"])
  /\ offset' = offset + numbits
  /\ ai' = ai + 1
  /\ pc' = "assign"
  /\ UNCHANGED <<table, li, mode, assigns, data, head, tail, numbits, i>>

\* Line 69: print 'break;' and go to the next line
EndLine ==
  /\ pc = "assign"
  /\ ai > Len(assigns)
  /\ out' = Append(out, [kind |-> "break"])
  /\ li' = li + 1
  /\ pc' = "line"
  /\ UNCHANGED <<table, mode, assigns, ai, offset, data, head, tail, numbits, i>>

\* Line 71: print('}')
PrintClose ==
  /\ pc = "line"
  /\ li > Len(table)
  /\ out' = Append(out, [kind |-> "close"])
  /\ pc' = "done"
  /\ UNCHANGED <<table, li, mode, assigns, ai, offset, data, head, tail, numbits, i>>

Next ==
  \/ PrintSwitch
  \/ SkipBlank
  \/ StartLine
  \/ Assign
  \/ RevBit
  \/ RevEnd
  \/ EndLine
  \/ PrintClose

Spec == Init /\ [][Next]_vars

----------------------------------------------------------------------------
(* Reading the printed output and the text of a line.                      *)

IsOp(r) == r.kind = "op"

\* Indices in out of the printed case labels, in order
Cases == SelectSeq([k \in 1..Len(out) |-> k], LAMBDA k : out[k].kind = "case")

\* The printed lines that follow the n-th case label, up to the next label
Segment(n) ==
  SubSeq(out, Cases[n] + 1, IF n < Len(Cases) THEN Cases[n + 1] - 1 ELSE Len(out))

\* The n-th mode's program is complete once its break is printed
Complete(n) == \E k \in 1..Len(Segment(n)) : Segment(n)[k].kind = "break"

\* The extraction operations printed for the n-th case label
SegOps(n) == SelectSeq(Segment(n), IsOp)

\* The operations printed so far for the line being compiled
CurOps == IF Len(Cases) = 0 THEN <<>> ELSE SegOps(Len(Cases))

\* The non-blank lines of the table: the n-th case label is printed for the n-th
NonBlank == SelectSeq(table, LAMBDA l : Strip(l) # <<>>)

\* The line whose break was printed by the last step
LineEnded == pc = "line" /\ Len(out) > 0 /\ out[Len(out)].kind = "break"

ModerefLines == {MODEREF[k] : k \in 2..Len(MODEREF)}

\* The state right after a line of MODEREF was compiled (assigns, mode and
\* offset are still those of that line)
ModerefLineEnded == LineEnded /\ table[li - 1] \in ModerefLines

\* The two bracket numbers of a field as written (b = a for a single bit)
FieldA(f) == ParseInt(Match(f).g3)

FieldB(f) == IF Match(f).g4 = <<>> THEN FieldA(f) ELSE ParseInt(Match(f).g4)

Abs(x) == IF x < 0 THEN -x ELSE x

FieldWidth(f) == Abs(FieldA(f) - FieldB(f)) + 1

\* A field the script compiles into operations: it matches, is no selector
\* and carries an endpoint digit
IsChannelField(f) == Match(f).ok /\ Match(f).g1 # "m" /\ Match(f).g2 # <<>>

RECURSIVE SumWidths(_)
SumWidths(fs) == IF fs = <<>> THEN 0 ELSE FieldWidth(Head(fs)) + SumWidths(Tail(fs))

\* Source bits an operation reads, destination bits it writes
DestBits(r) == r.firstbit .. (r.firstbit + r.numbits - 1)

----------------------------------------------------------------------------
(* C1 *)

\* The (endpoint, channel) pairs named in the current line
LinePairs ==
  {<<ParseInt(Match(assigns[k]).g2), Match(assigns[k]).g1>> :
     k \in {j \in 1..Len(assigns) : IsChannelField(assigns[j])}}

\* One more than the highest destination bit the line names for pair p
PairWidth(p) ==
  1 + Max(UNION {{FieldA(assigns[k]), FieldB(assigns[k])} :
                   k \in {j \in 1..Len(assigns) :
                            /\ IsChannelField(assigns[j])
                            /\ ParseInt(Match(assigns[j]).g2) = p[1]
                            /\ Match(assigns[j]).g1 = p[2]}})

\* C1: for every line of MODEREF and every (endpoint, channel) pair of the line,
\* the destination bit ranges of the operations printed for the pair are
\* pairwise disjoint and their union is exactly 0 .. W-1, W being one more than
\* the highest bit the line names for the pair.
C1_Coverage ==
  ModerefLineEnded =>
    \A p \in LinePairs :
      LET idx == {k \in 1..Len(CurOps) :
                    CurOps[k].endpoint = p[1] /\ CurOps[k].channel = p[2]}
      IN  /\ \A k1 \in idx : \A k2 \in idx :
                k1 # k2 => DestBits(CurOps[k1]) \cap DestBits(CurOps[k2]) = {}
          /\ UNION {DestBits(CurOps[k]) : k \in idx} = 0 .. (PairWidth(p) - 1)

\* All fourteen modes of MODEREF compiled; mode 15 was the last, its reversed
\* r0[10:15] having filled bits 10..15 of r0
C1_Witness ==
  /\ table = MODEREF
  /\ pc = "done"
  /\ Len(Cases) = 14
  /\ PairWidth(<<0, "r">>) = 16

----------------------------------------------------------------------------
(* C2 *)

\* C2: the source offsets of the operations of a mode, in the order printed,
\* never decrease, and after the last field of a MODEREF line the cursor equals
\* the sum of the widths of all fields of the line, selector included: 77 for
\* modes 0,1,2,6,10,14,18,22,26,30 and 65 for modes 3,7,11,15.
C2_Cursor ==
  /\ \A k \in 1..(Len(CurOps) - 1) : CurOps[k].offset <= CurOps[k + 1].offset
  /\ ModerefLineEnded =>
       /\ offset = SumWidths(assigns)
       /\ mode \in {0, 1, 2, 6, 10, 14, 18, 22, 26, 30} => offset = 77
       /\ mode \in {3, 7, 11, 15} => offset = 65
       /\ mode \in {0, 1, 2, 6, 10, 14, 18, 22, 26, 30, 3, 7, 11, 15}

\* The second line of the table (mode 1) has just been compiled: the cursor is
\* at 77, not at 154
C2_Witness ==
  /\ table = MODEREF
  /\ LineEnded
  /\ mode = 1
  /\ offset = 77
  /\ Len(CurOps) = 23

----------------------------------------------------------------------------
(* C3 *)

\* Text of the field x0[2:5]
FieldX0_2_5 == <<"x", "0", "[", "2", ":", "5", "]">>

\* The element being expanded while the reverse read runs
InReverse == pc = "rev" /\ IsChannelField(assigns[ai]) /\ FieldA(assigns[ai]) < FieldB(assigns[ai])

\* State part: while the expansion runs, the i operations printed so far follow
\* the begin marker, are one bit wide, read cursor+k and write bit b-k, and the
\* cursor has not moved; the expansion never runs past b-a+1 operations.
C3_Expansion ==
  pc = "rev" =>
    LET f == assigns[ai]
        n == Len(out)
    IN  /\ InReverse
        /\ i <= FieldB(f) - FieldA(f) + 1
        /\ n >= i + 1
        /\ out[n - i].kind = "begin"
        /\ \A k \in 0..(i - 1) :
             out[n - i + 1 + k] =
               [kind |-> "op", endpoint |-> ParseInt(Match(f).g2), channel |-> Match(f).g1,
                offset |-> offset + k, numbits |-> 1, firstbit |-> FieldB(f) - k]

\* Step part: a field a:b with a < b starts an expansion without moving the
\* cursor; a turn of the expansion prints one operation and leaves the cursor;
\* the expansion ends after exactly b-a+1 operations, and only then does the
\* cursor advance, by b-a+1.
C3_Step ==
  /\ (pc = "assign" /\ ai <= Len(assigns) /\ IsChannelField(assigns[ai])
        /\ FieldA(assigns[ai]) < FieldB(assigns[ai]))
       => (pc' = "rev" /\ i' = 0 /\ offset' = offset /\ ai' = ai)
  /\ (pc = "rev" /\ pc' = "rev")
       => (offset' = offset /\ i' = i + 1 /\ Len(out') = Len(out) + 1 /\ IsOp(out'[Len(out')]))
  /\ (pc = "rev" /\ pc' # "rev")
       => /\ pc' = "assign"
          /\ i = FieldB(assigns[ai]) - FieldA(assigns[ai]) + 1
          /\ offset' = offset + (FieldB(assigns[ai]) - FieldA(assigns[ai]) + 1)
          /\ ai' = ai + 1
          /\ SelectSeq(out', IsOp) = SelectSeq(out, IsOp)

\* x0[2:5] met at cursor 6: bits 5,4,3,2 from offsets 6,7,8,9
C3_Example ==
  (pc = "rev" /\ assigns[ai] = FieldX0_2_5 /\ i = 4) =>
    /\ offset = 6
    /\ SubSeq(out, Len(out) - 3, Len(out)) =
         << [kind |-> "op", endpoint |-> 0, channel |-> "x", offset |-> 6, numbits |-> 1, firstbit |-> 5],
            [kind |-> "op", endpoint |-> 0, channel |-> "x", offset |-> 7, numbits |-> 1, firstbit |-> 4],
            [kind |-> "op", endpoint |-> 0, channel |-> "x", offset |-> 8, numbits |-> 1, firstbit |-> 3],
            [kind |-> "op", endpoint |-> 0, channel |-> "x", offset |-> 9, numbits |-> 1, firstbit |-> 2] >>

\* C3: a non-selector field a:b with a < b is expanded into exactly b-a+1
\* one-bit operations, the i-th reading cursor+i and writing bit b-i, and the
\* cursor advances by b-a+1 once, after the expansion; x0[2:5] gives bits
\* 5,4,3,2 at cursor .. cursor+3.
C3_Reversal == [](C3_Expansion /\ C3_Example) /\ [][C3_Step]_vars

\* The expansion of x0[2:5] is over and the cursor went from 6 to 10
C3_Witness ==
  /\ pc = "assign"
  /\ ai = 4
  /\ assigns[3] = FieldX0_2_5
  /\ offset = 10
  /\ out[Len(out)].kind = "end"
  /\ Len(CurOps) = 5

----------------------------------------------------------------------------
(* C4 *)

\* A compiled field whose first bracket number is not below the second
IsForwardField(f) == IsChannelField(f) /\ FieldA(f) >= FieldB(f)

C4_Step ==
  (pc = "assign" /\ ai <= Len(assigns) /\ IsForwardField(assigns[ai])) =>
    LET f == assigns[ai]
    IN  /\ out' = Append(out, [kind |-> "op",
                               endpoint |-> ParseInt(Match(f).g2),
                               channel |-> Match(f).g1,
                               offset |-> offset,
                               numbits |-> FieldA(f) - FieldB(f) + 1,
                               firstbit |-> FieldB(f)])
        /\ offset' = offset + (FieldA(f) - FieldB(f) + 1)
        /\ ai' = ai + 1
        /\ pc' = "assign"

Wide(ch, ep, off) ==
  [kind |-> "op", endpoint |-> ep, channel |-> ch, offset |-> off, numbits |-> 10, firstbit |-> 0]

C4_Mode3 ==
  (LineEnded /\ table[li - 1] = MODEREF[12]) =>
    /\ mode = 3
    /\ CurOps = << Wide("r", 0, 5), Wide("g", 0, 15), Wide("b", 0, 25),
                   Wide("r", 1, 35), Wide("g", 1, 45), Wide("b", 1, 55) >>

\* C4: a compiled non-selector field a:b with a >= b (a single bit [n]
\* included) prints exactly one operation, reading a-b+1 bits at the cursor
\* into the token's endpoint and channel at bit b, and the cursor advances by
\* a-b+1; mode 3 compiles to six 10-bit operations at 5,15,25,35,45,55.
C4_Forward == []C4_Mode3 /\ [][C4_Step]_vars

\* Mode 3 of MODEREF compiled, after the ten lines before it
C4_Witness ==
  /\ table = MODEREF
  /\ LineEnded
  /\ mode = 3
  /\ li = 13
  /\ Len(CurOps) = 6

----------------------------------------------------------------------------
(* C5 *)

FieldM_4_0 == <<"m", "[", "4", ":", "0", "]">>

FieldM_1_0 == <<"m", "[", "1", ":", "0", "]">>

FieldM_0_4 == <<"m", "[", "0", ":", "4", "]">>

C5_Step ==
  (pc = "assign" /\ ai <= Len(assigns) /\ Match(assigns[ai]).ok /\ Match(assigns[ai]).g1 = "m") =>
    /\ out' = out
    /\ offset' = offset + FieldWidth(assigns[ai])
    /\ assigns[ai] = FieldM_4_0 => offset' = offset + 5
    /\ assigns[ai] = FieldM_1_0 => offset' = offset + 2
    /\ assigns[ai] = FieldM_0_4 => offset' = offset + 5
    /\ pc' = "assign"
    /\ ai' = ai + 1

\* C5: a field whose channel letter is m advances the cursor by the width of
\* its range (5 for m[4:0], 2 for m[1:0]) in whichever order the range is
\* written, and prints nothing.
C5_Selector == [][C5_Step]_vars

\* m[0:4] met in the middle of a line, at cursor 6: the cursor is at 11 and the
\* line still has the single operation of g1[2]
C5_Witness ==
  /\ pc = "assign"
  /\ ai = 4
  /\ assigns[3] = FieldM_0_4
  /\ offset = 11
  /\ Len(CurOps) = 1
  /\ out[Len(out)].kind = "op"

----------------------------------------------------------------------------
(* C6 *)

\* The grammar of the claim: the whole element is <letter><digit?>[<int>] or
\* <letter><digit?>[<int>:<int>] and the letter is one of m, r, g, b
InGrammar(f) ==
  /\ Match(f).ok
  /\ Match(f).last = Len(f)
  /\ Match(f).g1 \in {"m", "r", "g", "b"}

\* C6: an element is accepted only if it is in the grammar: every element the
\* script got past without failing (those before ai, and the one being
\* expanded) is in the grammar.
C6_GrammarRejection ==
  pc \in {"assign", "rev"} =>
    /\ \A k \in 1..(ai - 1) : InGrammar(assigns[k])
    /\ pc = "rev" => InGrammar(assigns[ai])

----------------------------------------------------------------------------
(* C7 *)

\* C7: when the script has failed, no operation of the line it failed in has
\* been printed (a line that failed before its case label has none).
C7_AllOrNothing ==
  (pc = "error" /\ Len(Cases) > 0 /\ ~Complete(Len(Cases))) => CurOps = <<>>

----------------------------------------------------------------------------
(* C8 *)

\* Two lines of the table declare the same mode identifier
DeclaresDuplicate ==
  LET ids == [k \in 1..Len(NonBlank) |-> SplitWs(NonBlank[k])]
  IN  \E a \in 1..Len(ids) : \E b \in 1..Len(ids) :
        /\ a # b
        /\ Len(ids[a]) = 2
        /\ Len(ids[b]) = 2
        /\ ids[a][1] = ids[b][1]

\* C8: a table that declares a mode identifier twice yields no program, and a
\* run that succeeds has printed every mode identifier once.
C8_DuplicateRejection ==
  /\ DeclaresDuplicate => \A n \in 1..Len(Cases) : SegOps(n) = <<>>
  /\ pc = "done" =>
       \A a \in 1..Len(Cases) : \A b \in 1..Len(Cases) :
         a # b => out[Cases[a]].mode # out[Cases[b]].mode

----------------------------------------------------------------------------
(* C9 *)

\* C9: the operations printed for a line depend on that line only: two
\* compiled lines with the same text have the same operation sequence,
\* whatever was compiled before each.
C9_Independence ==
  LET nb   == NonBlank
      same == {ab \in (1..Len(Cases)) \X (1..Len(Cases)) :
                 ab[1] < ab[2] /\ nb[ab[1]] = nb[ab[2]]}
  IN  \A ab \in same :
        (Complete(ab[1]) /\ Complete(ab[2])) => SegOps(ab[1]) = SegOps(ab[2])

\* A line compiled first in the table and again after a different line
C9_Witness ==
  /\ Len(table) = 3
  /\ table[1] = table[3]
  /\ table[1] # table[2]
  /\ pc = "done"
  /\ Len(SegOps(3)) > 0
  /\ Len(SegOps(2)) # Len(SegOps(1))

----------------------------------------------------------------------------
(* C10 *)

\* C10: for every line of MODEREF the source ranges of the operations tile the
\* payload after the selector: the first starts at the selector width (2 for
\* modes 0 and 1, 5 otherwise), each starts where the previous one ends, the
\* last ends at the final cursor, and none reads at or beyond bit 77.
C10_SourceTiling ==
  ModerefLineEnded =>
    /\ Len(CurOps) >= 1
    /\ CurOps[1].offset = (IF mode \in {0, 1} THEN 2 ELSE 5)
    /\ \A k \in 1..(Len(CurOps) - 1) :
         CurOps[k + 1].offset = CurOps[k].offset + CurOps[k].numbits
    /\ CurOps[Len(CurOps)].offset + CurOps[Len(CurOps)].numbits = offset
    /\ \A k \in 1..Len(CurOps) : CurOps[k].offset + CurOps[k].numbits <= 77

\* Mode 15 of MODEREF compiled: 24 operations, 18 of them one bit wide, from
\* bit 5 to bit 65
C10_Witness ==
  /\ table = MODEREF
  /\ LineEnded
  /\ mode = 15
  /\ Len(CurOps) = 24
  /\ CurOps[1].offset = 5
  /\ CurOps[24].offset = 64

====
